---- MODULE Spec2Model ----
(***************************************************************************)
(* Blood Resource Allocation: the hospital blood request lifecycle, the    *)
(* per-bank blood stock and the HTTP handlers that drive them.             *)
(*                                                                         *)
(* Handlers are async functions: every `await` on a store operation is a   *)
(* point where other handlers may run.  A handler that awaits more than    *)
(* one store operation is modelled as a process with a program counter;    *)
(* a handler with a single store operation is one atomic action.           *)
(***************************************************************************)
EXTENDS Integers, Sequences, FiniteSets, TLC

\* ---------------------------------------------------------------- bounds
MaxRequests == 1
MaxUnits == 2
MaxStock == 3
MaxLog == 1
MaxDrives == 1
MaxCollected == 1
MaxAudit == 2
MaxTicks == 2
MaxCleanups == 1
MaxAttempts == 1

RequestIds == 1..MaxRequests
DriveIds == 1..MaxDrives

\* ------------------------------------------------------ program constants
ValidBloodGroups == {"O+", "O-", "A+", "A-", "B+", "B-", "AB+", "AB-"}
Urgencies == {"LOW", "MEDIUM", "HIGH", "CRITICAL"}
RequestStatuses ==
  {"PENDING", "PENDING_ADMIN_APPROVAL", "APPROVED", "ASSIGNED",
   "PROCESSING", "FULFILLED", "REJECTED", "CANCELLED"}
TerminalStatuses == {"FULFILLED", "REJECTED", "CANCELLED"}
DriveStatuses == {"PLANNED", "APPROVED", "REJECTED", "ONGOING", "COMPLETED", "CANCELLED"}
DriveTerminalStatuses == {"COMPLETED", "REJECTED", "CANCELLED"}

\* Methods the BloodBank model class defines.
BloodBankMethods ==
  {"getCollection", "getBloodBankQuery", "create", "findById", "findByCode",
   "findByEmail", "findAll", "findByStatus", "touchStockTimestamp",
   "updateById", "verifyByAdmin", "rejectByAdmin", "suspendByAdmin",
   "reactivateByAdmin", "incrementStatistics", "deleteById",
   "getStatsByLocation"}

\* ------------------------------------------------------------ input sets
Banks == {"BB-001"}
Admins == {"admin-1"}
NoAdmin == "undefined"
NoBank == "null"
InputGroups == {"O+", "XX"}
InputUrgencies == {"MEDIUM", "CRITICAL"}
NoReason == "undefined"
Reasons == {NoReason, "", "no stock"}
DriveBodies == {[status |-> "ONGOING", ngoId |-> "NGO-2"],
                [status |-> "COMPLETED", ngoId |-> "NGO-2"]}
Messages == {"", "note"}

\* ------------------------------------------------------------- JS values
\* A request-body value: a JSON number, a decimal digit string, a string
\* that is not a number, or an absent field.  Numbers are integers: a
\* fractional JSON number is not represented.
Num(n) == [t |-> "number", v |-> n]
NumStr(n) == [t |-> "numstr", v |-> n]
Junk == [t |-> "junkstr", v |-> 0]
Undefined == [t |-> "undefined", v |-> 0]
NaN == [t |-> "nan", v |-> 0]

\* req.body.unitsFulfilled of a fulfill call
RawFulfillUnits ==
  {Num(0), Num(1), Num(MaxUnits), Num(MaxUnits + 1), NumStr(0), NumStr(MaxUnits),
   Junk, Undefined}

\* req.body.units of a manual stock update
RawStockUnits ==
  {Num(-1), Num(MaxStock), NumStr(0), Junk, Undefined}

\* req.body.units of a recordCollection call
RawCollectedUnits ==
  {Num(n) : n \in -1..MaxCollected} \cup {NumStr(1), Junk, Undefined}

\* JavaScript truthiness: 0, NaN and undefined are falsy; every non-empty
\* string (also "0") is truthy.
Truthy(x) ==
  CASE x.t = "number" -> x.v # 0
    [] x.t = "undefined" -> FALSE
    [] x.t = "nan" -> FALSE
    [] OTHER -> TRUE

parseInt(x) ==
  CASE x.t = "number" -> x
    [] x.t = "numstr" -> Num(x.v)
    [] OTHER -> NaN

Number(x) ==
  CASE x.t = "number" -> x
    [] x.t = "numstr" -> Num(x.v)
    [] OTHER -> NaN

isNaN(x) == x.t = "nan"

\* ----------------------------------------------------------------- state
VARIABLES
  requests,     \* hospital_blood_requests collection: id -> document
  stock,        \* blood_stock collection: bank -> group -> units
  stats,        \* organizations.statistics of each bank
  calls,        \* per request: the fulfillRequest invocation that passed the status write
  expected,     \* ledger: initial stock plus the deltas of the adjustments answered 200
  drives,       \* blood_bank_ngo_drives collection: id -> document
  dcalls,       \* per drive: the completeDrive invocation that passed the status write
  audit_logs,   \* audit_logs collection (Audit model), in insertion order
  auditlogs,    \* auditlogs collection (AuditLogger), in insertion order
  clock,        \* what new Date() returns, in days
  attempts,     \* stock update calls answered so far
  reader,       \* a client reading the pages of findByEntityId one by one
  organizations,\* organizations collection, type bloodbank: the banks registered
  admin_actions,\* blood bank admin action records, in insertion order
  acalls,       \* the admin action each admin who acted is in or was answered
  alerts,       \* alerts collection, in insertion order
  sweeps,       \* retention sweeps the cleanup route answered with success
  snapshot      \* a client's getBloodStock call and the answer it got

\* The audit collections are followed in SpecAudit only.
auditVars == <<audit_logs, auditlogs, clock, attempts, reader>>

\* The bank documents, the admin action records, the alerts, the answered
\* sweeps and the stock snapshot are followed in the specifications of their
\* own handlers only.
adminVars == <<organizations, admin_actions, acalls, alerts, sweeps, snapshot>>

vars == <<requests, stock, stats, calls, expected, drives, dcalls, auditVars, adminVars>>

\* The admins who act on a bank, two of them so that two can race.
ActingAdmins == {"admin-1", "admin-2"}

BankStatuses == {"PENDING", "VERIFIED", "REJECTED", "SUSPENDED"}

\* hist: every value the status field took, in order.
NoOrganization ==
  [status |-> "NONE", isActive |-> FALSE, name |-> "bank",
   verificationStatus |-> [isVerified |-> FALSE, verifiedBy |-> NoAdmin],
   hist |-> <<>>]

\* An admin action between its status write and its record write.
IdleAdminCall == [pc |-> "idle", bank |-> NoBank, actionType |-> "NONE",
                  previousStatus |-> "NONE", newStatus |-> "NONE", resp |-> 0]

\* A getBloodStock call: idle, or between findById and the read of the stock
\* document; bloodStock and totalUnitsAvailable are the answer's data.
NoSnapshot ==
  [pc |-> "idle", bank |-> NoBank,
   bloodStock |-> <<>>,
   totalUnitsAvailable |-> 0, resp |-> 0]

NoRequest ==
  [status |-> "NONE", urgency |-> "LOW", bloodGroup |-> "O+",
   unitsRequested |-> 0, unitsFulfilled |-> 0, bloodBankId |-> NoBank,
   approvedBy |-> NoAdmin, log |-> <<>>, hist |-> <<>>]

Deleted == [NoRequest EXCEPT !.status = "DELETED"]

\* units: the debit asked for; debited: the units the invocation took from the
\* stock; refused: a later invocation on the same request was answered 400.
IdleCall == [pc |-> "idle", units |-> 0, bank |-> NoBank, group |-> "O+",
             debited |-> 0, refused |-> FALSE, resp |-> 0, error |-> "none"]

Exists(id) == requests[id].status \in RequestStatuses

NoCollection == [g \in ValidBloodGroups |-> 0]

NoDrive ==
  [status |-> "NONE", bloodBankId |-> NoBank, ngoId |-> "NGO-1",
   collectedUnits |-> NoCollection, totalUnitsCollected |-> 0,
   approvedBy |-> NoAdmin, reason |-> "", hist |-> <<>>]

DriveDeleted == [NoDrive EXCEPT !.status = "DELETED"]

\* refused: a later completeDrive invocation on the same drive was answered 400.
IdleDriveCall == [pc |-> "idle", bank |-> NoBank, collected |-> NoCollection,
                  total |-> 0, refused |-> FALSE, resp |-> 0]

DriveExists(id) == drives[id].status \in DriveStatuses

IdleReader == [pc |-> "idle", entityId |-> "none", limit |-> 0, page |-> 1,
               size |-> 0, got |-> <<>>]

Init ==
  /\ requests = [id \in RequestIds |-> NoRequest]
  /\ stock = [b \in Banks |-> [g \in ValidBloodGroups |-> 0]]
  /\ stats = [b \in Banks |->
               [totalDonationsReceived |-> 0, totalUnitsDistributed |-> 0,
                totalNgoDrivesSupported |-> 0, totalHospitalRequestsFulfilled |-> 0]]
  /\ calls = [id \in RequestIds |-> IdleCall]
  /\ expected = [b \in Banks |-> [g \in ValidBloodGroups |-> 0]]
  /\ drives = [id \in DriveIds |-> NoDrive]
  /\ dcalls = [id \in DriveIds |-> IdleDriveCall]
  /\ audit_logs = <<>>
  /\ auditlogs = <<>>
  /\ clock = 0
  /\ attempts = 0
  /\ reader = IdleReader
  /\ organizations = <<>>
  /\ admin_actions = <<>>
  /\ acalls = <<>>
  /\ alerts = <<>>
  /\ sweeps = 0
  /\ snapshot = NoSnapshot

\* ------------------------------------------------------- Approval Gate
requiresAdminApproval(r) == r.urgency = "CRITICAL"

\* ------------------------------------- HospitalBloodRequest model (store)
\* Each operation is one atomic conditional document update: a filter on the
\* current document (…Ok) and the document it writes when the filter matches.
SetStatus(r, s) == [r EXCEPT !.status = s, !.hist = Append(@, s)]

ModelCreateOk(urgency, group, units) ==
  /\ urgency \in Urgencies
  /\ group \in ValidBloodGroups
  /\ units > 0

ModelCreate(urgency, group, units) ==
  [NoRequest EXCEPT !.status = "PENDING", !.urgency = urgency,
                    !.bloodGroup = group, !.unitsRequested = units,
                    !.hist = <<"PENDING">>]

ModelApproveOk(r) ==
  /\ r.status \in {"PENDING", "PENDING_ADMIN_APPROVAL"}
  /\ requiresAdminApproval(r)

ModelApproveByAdmin(r, adminId) ==
  [SetStatus(r, "APPROVED") EXCEPT !.approvedBy = adminId]

ModelAutoApproveOk(r) ==
  /\ r.status = "PENDING"
  /\ ~requiresAdminApproval(r)

\* Mutant: a bank can be assigned while the request is still PENDING.
ModelAssignOkFromPending(r) == r.status \in {"PENDING", "APPROVED"}

ModelAssignOk(r) == r.status = "APPROVED"

ModelAssignBloodBank(r, bank) ==
  [SetStatus(r, "ASSIGNED") EXCEPT !.bloodBankId = bank]

ModelStartOk(r) == r.status = "ASSIGNED"

ModelStartProcessing(r) == SetStatus(r, "PROCESSING")

\* Mutant: the units are not compared with unitsRequested.
ModelFulfillOkUnbounded(r, n) ==
  /\ r.status = "PROCESSING"
  /\ n.t = "number"
  /\ n.v > 0

ModelFulfillOk(r, n) ==
  /\ r.status = "PROCESSING"
  /\ n.t = "number"
  /\ n.v > 0
  /\ n.v <= r.unitsRequested

ModelFulfillRequest(r, n) ==
  [SetStatus(r, "FULFILLED") EXCEPT !.unitsFulfilled = n.v]

\* Mutant: reject and cancel do not look at the current status.
ModelEndOkAnyStatus(r) == r.status \in RequestStatuses

ModelEndOk(r) == r.status \in RequestStatuses \ TerminalStatuses

ModelRejectRequest(r, reason) ==
  [SetStatus(r, "REJECTED") EXCEPT !.log = Append(@, reason)]

ModelCancelRequest(r, reason) ==
  [SetStatus(r, "CANCELLED") EXCEPT !.log = Append(@, reason)]

ModelAddLog(r, entry) == [r EXCEPT !.log = Append(@, entry)]

\* !reason: the field is absent from the body or is the empty string.
Missing(reason) == reason \in {NoReason, ""}

\* ------------------------------------------------ request handlers
\* A handler whose store operation does not match answers 4xx and leaves
\* every collection as it was.
Frame == UNCHANGED <<stock, stats, calls, expected, drives, dcalls, auditVars, adminVars>>

createRequest(id, urgency, group, units) ==
  /\ requests[id].status = "NONE"
  /\ \A j \in RequestIds : j < id => requests[j].status # "NONE"
  /\ requests' = IF ModelCreateOk(urgency, group, units)
                   THEN [requests EXCEPT ![id] = ModelCreate(urgency, group, units)]
                   ELSE requests
  /\ Frame

\* PENDING --(auto, if not required)--> APPROVED
autoApprove(id) ==
  /\ ModelAutoApproveOk(requests[id])
  /\ requests' = [requests EXCEPT ![id] = SetStatus(@, "APPROVED")]
  /\ Frame

\* Mutant: the handler does not require req.admin.
approveRequestUnauthenticated(adminId, id) ==
  /\ Exists(id)
  /\ requests' = IF ModelApproveOk(requests[id])
                   THEN [requests EXCEPT ![id] = ModelApproveByAdmin(@, adminId)]
                   ELSE requests
  /\ Frame

approveRequest(adminId, id) ==
  /\ Exists(id)
  /\ requests' = IF adminId # NoAdmin /\ ModelApproveOk(requests[id])
                   THEN [requests EXCEPT ![id] = ModelApproveByAdmin(@, adminId)]
                   ELSE requests
  /\ Frame

assignBloodBank(id, bank) ==
  /\ Exists(id)
  /\ requests' = IF bank # NoBank /\ ModelAssignOk(requests[id])
                   THEN [requests EXCEPT ![id] = ModelAssignBloodBank(@, bank)]
                   ELSE requests
  /\ Frame

startProcessing(id) ==
  /\ Exists(id)
  /\ requests' = IF ModelStartOk(requests[id])
                   THEN [requests EXCEPT ![id] = ModelStartProcessing(@)]
                   ELSE requests
  /\ Frame

rejectRequest(id, reason) ==
  /\ Exists(id)
  /\ requests' = IF ~Missing(reason) /\ ModelEndOk(requests[id])
                   THEN [requests EXCEPT ![id] = ModelRejectRequest(@, reason)]
                   ELSE requests
  /\ Frame

\* Mutant: a cancellation hands the requested units back to the bank's stock.
cancelRequestRestock(id, reason) ==
  /\ Exists(id)
  /\ IF ~Missing(reason) /\ ModelEndOk(requests[id])
       THEN /\ requests' = [requests EXCEPT ![id] = ModelCancelRequest(@, reason)]
            /\ stock' = IF requests[id].bloodBankId \in Banks
                          THEN [stock EXCEPT
                                  ![requests[id].bloodBankId][requests[id].bloodGroup] =
                                     @ + requests[id].unitsRequested]
                          ELSE stock
       ELSE UNCHANGED <<requests, stock>>
  /\ UNCHANGED <<stats, calls, expected, drives, dcalls, auditVars, adminVars>>

cancelRequest(id, reason) ==
  /\ Exists(id)
  /\ requests' = IF ~Missing(reason) /\ ModelEndOk(requests[id])
                   THEN [requests EXCEPT ![id] = ModelCancelRequest(@, reason)]
                   ELSE requests
  /\ Frame

\* The bank's response is kept on the request document, here as a note.
updateResponse(id) ==
  /\ Exists(id)
  /\ Len(requests[id].log) < MaxLog
  /\ requests' = [requests EXCEPT ![id] = ModelAddLog(@, "note")]
  /\ Frame

addCommunicationLog(id, message) ==
  /\ Exists(id)
  /\ Len(requests[id].log) < MaxLog
  /\ requests' = IF message # ""
                   THEN [requests EXCEPT ![id] = ModelAddLog(@, message)]
                   ELSE requests
  /\ Frame

deleteRequest(adminId, id) ==
  /\ Exists(id)
  /\ requests' = IF adminId # NoAdmin
                   THEN [requests EXCEPT ![id] = Deleted]
                   ELSE requests
  /\ Frame

\* ---- fulfillRequest: validation, then HospitalBloodRequest.fulfillRequest
\* An invocation that fails the validation or whose status write does not
\* match answers 400 and ends there; the one whose write matched goes on.
Finish(call, code) == [call EXCEPT !.pc = "done", !.resp = code]

Adjust(ledger, bank, group, delta) ==
  IF bank \in Banks THEN [ledger EXCEPT ![bank][group] = @ + delta] ELSE ledger

fulfillStart(id, raw) ==
  /\ Exists(id)
  /\ LET r == requests[id] IN
       IF Truthy(raw) /\ ModelFulfillOk(r, parseInt(raw))
         THEN /\ requests' = [requests EXCEPT ![id] = ModelFulfillRequest(@, parseInt(raw))]
              /\ calls' = [calls EXCEPT ![id] =
                             [IdleCall EXCEPT !.pc = "find", !.units = parseInt(raw).v]]
         ELSE /\ calls' = IF Truthy(raw) /\ r.status = "FULFILLED"
                            THEN [calls EXCEPT ![id].refused = TRUE]
                            ELSE calls
              /\ UNCHANGED requests
  /\ UNCHANGED <<stock, stats, expected, drives, dcalls, auditVars, adminVars>>

\* ---- fulfillRequest: HospitalBloodRequest.findById
fulfillFind(id) ==
  /\ calls[id].pc = "find"
  /\ LET r == requests[id] IN
       IF Exists(id) /\ r.bloodBankId # NoBank
         THEN calls' = [calls EXCEPT ![id].pc = "debit", ![id].bank = r.bloodBankId,
                                     ![id].group = r.bloodGroup]
         ELSE calls' = [calls EXCEPT ![id] = Finish(@, 200)]
  /\ UNCHANGED <<requests, stock, stats, expected, drives, dcalls, auditVars, adminVars>>

\* ---- fulfillRequest: BloodBank.updateBloodStock(bankId, group, -units)
\* The BloodBank model defines no updateBloodStock: the call throws a
\* TypeError, the statistics updates are skipped and the catch block
\* answers 500.
\* Mutant: the counter is decremented before the call fails.
fulfillDebitThenThrow(id) ==
  /\ calls[id].pc = "debit"
  /\ stock' = Adjust(stock, calls[id].bank, calls[id].group, -calls[id].units)
  /\ calls' = [calls EXCEPT ![id] = [Finish(@, 500) EXCEPT !.error = "TypeError"]]
  /\ UNCHANGED <<requests, stats, expected, drives, dcalls, auditVars, adminVars>>

fulfillDebit(id) ==
  /\ calls[id].pc = "debit"
  /\ "updateBloodStock" \notin BloodBankMethods
  /\ calls' = [calls EXCEPT ![id] = [Finish(@, 500) EXCEPT !.error = "TypeError"]]
  /\ UNCHANGED <<requests, stock, stats, expected, drives, dcalls, auditVars, adminVars>>

\* ---- manual stock update (PUT .../stock): BloodStock.updateBloodGroupUnits
BloodStockUpdateBloodGroupUnits(st, bank, group, units) ==
  [st EXCEPT ![bank][group] = units]

\* Mutant: the sign of the parsed number is not checked.
updateBloodStockOkUnsigned(group, raw) ==
  /\ raw.t # "undefined"
  /\ group \in ValidBloodGroups
  /\ ~isNaN(Number(raw))

updateBloodStockOk(group, raw) ==
  /\ raw.t # "undefined"
  /\ group \in ValidBloodGroups
  /\ ~isNaN(Number(raw))
  /\ ~(Number(raw).v < 0)

updateBloodStock(bank, group, raw) ==
  /\ IF updateBloodStockOk(group, raw)
       THEN /\ stock' = BloodStockUpdateBloodGroupUnits(stock, bank, group, Number(raw).v)
            /\ expected' = Adjust(expected, bank, group, Number(raw).v - stock[bank][group])
       ELSE UNCHANGED <<stock, expected>>
  /\ UNCHANGED <<requests, stats, calls, drives, dcalls, auditVars, adminVars>>

\* ------------------------------------- BloodBankNgoDrive model (store)
SetDriveStatus(d, s) == [d EXCEPT !.status = s, !.hist = Append(@, s)]

DriveCreate(bank) ==
  [NoDrive EXCEPT !.status = "PLANNED", !.bloodBankId = bank, !.hist = <<"PLANNED">>]

DriveApproveOk(d) == d.status = "PLANNED"

DriveApproveByAdmin(d, adminId) ==
  [SetDriveStatus(d, "APPROVED") EXCEPT !.approvedBy = adminId]

DriveStartOk(d) == d.status = "APPROVED"

DriveRecordOk(d, group, n) ==
  /\ d.status = "ONGOING"
  /\ n.t = "number"
  /\ n.v > 0

DriveRecordBloodCollection(d, group, n) ==
  [d EXCEPT !.collectedUnits[group] = @ + n.v, !.totalUnitsCollected = @ + n.v]

DriveCompleteOk(d) == d.status = "ONGOING"

DriveRejectOk(d) == d.status = "PLANNED"

DriveRejectByAdmin(d, adminId, reason) ==
  [SetDriveStatus(d, "REJECTED") EXCEPT !.reason = reason]

DriveCancelOk(d) == d.status \in DriveStatuses \ DriveTerminalStatuses

DriveCancel(d, reason) == [SetDriveStatus(d, "CANCELLED") EXCEPT !.reason = reason]

\* As BloodBank.updateById does, the update drops a status carried in the body.
DriveUpdateById(d, body) == [d EXCEPT !.ngoId = body.ngoId]

\* ------------------------------------------------------ drive handlers
DriveFrame == UNCHANGED <<requests, stock, stats, calls, expected, dcalls, auditVars, adminVars>>

createDrive(id, bank) ==
  /\ drives[id].status = "NONE"
  /\ \A j \in DriveIds : j < id => drives[j].status # "NONE"
  /\ drives' = [drives EXCEPT ![id] = DriveCreate(bank)]
  /\ DriveFrame

\* Mutant: the handler does not require req.admin.
approveDriveUnauthenticated(adminId, id) ==
  /\ DriveExists(id)
  /\ drives' = IF DriveApproveOk(drives[id])
                 THEN [drives EXCEPT ![id] = DriveApproveByAdmin(@, adminId)]
                 ELSE drives
  /\ DriveFrame

approveDrive(adminId, id) ==
  /\ DriveExists(id)
  /\ drives' = IF adminId # NoAdmin /\ DriveApproveOk(drives[id])
                 THEN [drives EXCEPT ![id] = DriveApproveByAdmin(@, adminId)]
                 ELSE drives
  /\ DriveFrame

\* Mutant: the handler starts a drive whatever its status.
startDriveAnyStatus(id) ==
  /\ DriveExists(id)
  /\ drives' = [drives EXCEPT ![id] = SetDriveStatus(@, "ONGOING")]
  /\ DriveFrame

startDrive(id) ==
  /\ DriveExists(id)
  /\ drives' = IF DriveStartOk(drives[id])
                 THEN [drives EXCEPT ![id] = SetDriveStatus(@, "ONGOING")]
                 ELSE drives
  /\ DriveFrame

\* Mutant: a recorded collection is credited to the bank's stock at once.
recordCollectionToStock(id, group, raw) ==
  /\ DriveExists(id)
  /\ IF /\ Truthy(raw)
        /\ group \in ValidBloodGroups
        /\ DriveRecordOk(drives[id], group, parseInt(raw))
        /\ drives[id].collectedUnits[group] + parseInt(raw).v <= MaxCollected
       THEN /\ drives' = [drives EXCEPT ![id] =
                            DriveRecordBloodCollection(@, group, parseInt(raw))]
            /\ stock' = Adjust(stock, drives[id].bloodBankId, group, parseInt(raw).v)
       ELSE UNCHANGED <<drives, stock>>
  /\ UNCHANGED <<requests, stats, calls, expected, dcalls, auditVars, adminVars>>

recordCollection(id, group, raw) ==
  /\ DriveExists(id)
  /\ drives' =
       IF /\ Truthy(raw)
          /\ group \in ValidBloodGroups
          /\ DriveRecordOk(drives[id], group, parseInt(raw))
          /\ drives[id].collectedUnits[group] + parseInt(raw).v <= MaxCollected
         THEN [drives EXCEPT ![id] = DriveRecordBloodCollection(@, group, parseInt(raw))]
         ELSE drives
  /\ DriveFrame

rejectDrive(adminId, id, reason) ==
  /\ DriveExists(id)
  /\ drives' = IF adminId # NoAdmin /\ ~Missing(reason) /\ DriveRejectOk(drives[id])
                 THEN [drives EXCEPT ![id] = DriveRejectByAdmin(@, adminId, reason)]
                 ELSE drives
  /\ DriveFrame

\* Mutant: a cancellation credits what the drive collected to the bank's stock.
cancelDriveCredits(id, reason) ==
  /\ DriveExists(id)
  /\ IF ~Missing(reason) /\ DriveCancelOk(drives[id])
       THEN /\ drives' = [drives EXCEPT ![id] = DriveCancel(@, reason)]
            /\ stock' = Adjust(stock, drives[id].bloodBankId, "O+",
                               drives[id].collectedUnits["O+"])
       ELSE UNCHANGED <<drives, stock>>
  /\ UNCHANGED <<requests, stats, calls, expected, dcalls, auditVars, adminVars>>

\* Mutant: the handler does not look at cancellationReason.
cancelDriveUnchecked(id, reason) ==
  /\ DriveExists(id)
  /\ drives' = IF DriveCancelOk(drives[id])
                 THEN [drives EXCEPT ![id] = DriveCancel(@, reason)]
                 ELSE drives
  /\ DriveFrame

cancelDrive(id, reason) ==
  /\ DriveExists(id)
  /\ drives' = IF ~Missing(reason) /\ DriveCancelOk(drives[id])
                 THEN [drives EXCEPT ![id] = DriveCancel(@, reason)]
                 ELSE drives
  /\ DriveFrame

updateDrive(id, body) ==
  /\ DriveExists(id)
  /\ drives' = [drives EXCEPT ![id] = DriveUpdateById(@, body)]
  /\ DriveFrame

deleteDrive(adminId, id) ==
  /\ DriveExists(id)
  /\ drives' = IF adminId # NoAdmin
                 THEN [drives EXCEPT ![id] = DriveDeleted]
                 ELSE drives
  /\ DriveFrame

\* ---- completeDrive: BloodBankNgoDrive.completeDrive
\* The status write is one conditional update: of two invocations on one
\* ONGOING drive the first matches and goes on, the second answers 400.
completeStart(id) ==
  /\ DriveExists(id)
  /\ IF DriveCompleteOk(drives[id])
       THEN /\ drives' = [drives EXCEPT ![id] = SetDriveStatus(@, "COMPLETED")]
            /\ dcalls' = [dcalls EXCEPT ![id].pc = "find"]
       ELSE /\ dcalls' = IF drives[id].status = "COMPLETED"
                            THEN [dcalls EXCEPT ![id].refused = TRUE]
                            ELSE dcalls
            /\ UNCHANGED drives
  /\ UNCHANGED <<requests, stock, stats, calls, expected, auditVars, adminVars>>

\* ---- completeDrive: BloodBankNgoDrive.findById
completeFind(id) ==
  /\ dcalls[id].pc = "find"
  /\ LET d == drives[id] IN
       IF DriveExists(id) /\ d.bloodBankId # NoBank
         THEN dcalls' = [dcalls EXCEPT ![id] =
                [@ EXCEPT !.pc = "credit", !.bank = d.bloodBankId,
                          !.collected = d.collectedUnits,
                          !.total = d.totalUnitsCollected]]
         ELSE dcalls' = [dcalls EXCEPT ![id].pc = "done", ![id].resp = 200]
  /\ UNCHANGED <<requests, stock, stats, calls, expected, drives, auditVars, adminVars>>

\* ---- completeDrive: the loop over Object.entries(drive.collectedUnits)
\* The first group with units > 0 calls BloodBank.updateBloodStock, which the
\* BloodBank model does not define: TypeError, caught, 500.  With nothing
\* collected the loop body never runs and the statistics are incremented.
completeCredit(id) ==
  /\ dcalls[id].pc = "credit"
  /\ IF \E g \in ValidBloodGroups : dcalls[id].collected[g] > 0
       THEN /\ "updateBloodStock" \notin BloodBankMethods
            /\ dcalls' = [dcalls EXCEPT ![id].pc = "done", ![id].resp = 500]
       ELSE dcalls' = [dcalls EXCEPT ![id].pc = "stats1"]
  /\ UNCHANGED <<requests, stock, stats, calls, expected, drives, auditVars, adminVars>>

incrementStatistics(st, bank, field, value) ==
  IF bank \in Banks THEN [st EXCEPT ![bank][field] = @ + value] ELSE st

completeStats1(id) ==
  /\ dcalls[id].pc = "stats1"
  /\ stats' = incrementStatistics(stats, dcalls[id].bank, "totalNgoDrivesSupported", 1)
  /\ dcalls' = [dcalls EXCEPT ![id].pc = "stats2"]
  /\ UNCHANGED <<requests, stock, calls, expected, drives, auditVars, adminVars>>

completeStats2(id) ==
  /\ dcalls[id].pc = "stats2"
  /\ stats' = incrementStatistics(stats, dcalls[id].bank, "totalDonationsReceived",
                                  dcalls[id].total)
  /\ dcalls' = [dcalls EXCEPT ![id].pc = "done", ![id].resp = 200]
  /\ UNCHANGED <<requests, stock, calls, expected, drives, auditVars, adminVars>>

\* ------------------------------------------------- Audit model (store)
\* A field the document does not have.
Absent == -1

EntityIds == Banks \cup {"HOSP-001"}
NoStatus == "undefined"
AuditInputStatuses == {NoStatus, "FAILURE"}

\* Audit.create: insertOne of a document stamped with new Date(); the status
\* defaults to SUCCESS.  id stands for the _id the store gives the document.
AuditCreate(logs, auditData, now) ==
  Append(logs, [id |-> Len(logs) + 1,
                entityType |-> auditData.entityType,
                entityId |-> auditData.entityId,
                status |-> IF auditData.status = NoStatus THEN "SUCCESS"
                                                          ELSE auditData.status,
                timestamp |-> now,
                createdAt |-> Absent])

\* .sort({ timestamp: -1 }) over find({ entityId }): every arrangement of the
\* matching documents in which the timestamp never increases.  Documents
\* with equal timestamps come in whatever order the store produces.
Matching(logs, entityId) == {i \in 1..Len(logs) : logs[i].entityId = entityId}

SortedOrders(logs, entityId) ==
  LET M == Matching(logs, entityId) IN
    {f \in [1..Cardinality(M) -> M] :
       \A a, b \in 1..Cardinality(M) :
         a < b => /\ f[a] # f[b]
                  /\ logs[f[a]].timestamp >= logs[f[b]].timestamp}

\* Math.ceil(total / limit)
TotalPages(total, limit) == (total + limit - 1) \div limit

\* .skip((page - 1) * limit).limit(limit) of one sorted arrangement
findByEntityId(logs, order, page, limit) ==
  LET total == Len(order)
      skip  == (page - 1) * limit
      count == IF total - skip > limit THEN limit
               ELSE IF total - skip > 0 THEN total - skip ELSE 0
  IN [logs |-> [k \in 1..count |-> logs[order[skip + k]]],
      total |-> total,
      totalPages |-> TotalPages(total, limit)]

\* --------------------------------------- compliance: data retention
RetentionPeriods ==
  [auditlogs |-> 2555, bloodrequests |-> 1825, donorregistrations |-> 2555,
   user_sessions |-> 30]

\* deleteMany({ createdAt: { $lt: cutoffDate } }): a document without
\* createdAt does not match.
DeleteExpired(coll, cutoff) ==
  SelectSeq(coll, LAMBDA doc : ~(doc.createdAt # Absent /\ doc.createdAt < cutoff))

\* AuditLogger.log: the entry carries timestamp and no createdAt.  log does
\* not await storeAuditEntry, and storeAuditEntry catches a failed insertOne
\* and only prints it: the caller sees neither.
AuditLoggerLog(coll, action, now, stored) ==
  IF stored
    THEN Append(coll, [action |-> action, userId |-> "anonymous", timestamp |-> now,
                       createdAt |-> Absent])
    ELSE coll

\* ------------------------------------------------------ audit handlers
AuditFrame == UNCHANGED <<requests, stock, stats, calls, expected, drives, dcalls, adminVars>>

\* Time passes: a day, or a whole retention period of the audit logs.  Two
\* calls with no Tick between them read the same new Date().
TickDays == {1, RetentionPeriods.auditlogs}

Tick(days) ==
  /\ \E a, b \in 0..MaxTicks :
       /\ a + b < MaxTicks
       /\ clock = a + b * RetentionPeriods.auditlogs
  /\ clock' = clock + days
  /\ UNCHANGED <<audit_logs, auditlogs, attempts, reader>>
  /\ AuditFrame

\* A component appends its entry: Audit.create(auditData).
auditCreate(entityId, status) ==
  /\ Len(audit_logs) < MaxAudit
  /\ audit_logs' = AuditCreate(audit_logs,
                     [entityType |-> "HOSPITAL", entityId |-> entityId,
                      status |-> status], clock)
  /\ UNCHANGED <<auditlogs, clock, attempts, reader>>
  /\ AuditFrame

SweepFrame ==
  UNCHANGED <<requests, stock, stats, calls, expected, drives, dcalls,
              organizations, admin_actions, acalls, alerts, snapshot>>

\* Mutant: the sweep also clears the audit_logs collection, by timestamp.
dataRetentionCleanupLedger(stored) ==
  /\ sweeps < MaxCleanups
  /\ auditlogs' = AuditLoggerLog(
                    DeleteExpired(auditlogs, clock - RetentionPeriods.auditlogs),
                    "data_retention_cleanup", clock, stored)
  /\ sweeps' = sweeps + 1
  /\ audit_logs' = SelectSeq(audit_logs,
                     LAMBDA doc : ~(doc.timestamp < clock - RetentionPeriods.auditlogs))
  /\ UNCHANGED <<clock, attempts, reader>>
  /\ SweepFrame

\* POST /data-retention/cleanup: DataRetention.cleanupExpiredData, then
\* auditLogger.log.  Of the four collections swept only auditlogs is
\* followed here; audit_logs is not among them.  The route answers with
\* status success whether or not the entry of the sweep was stored.
dataRetentionCleanup(stored) ==
  /\ sweeps < MaxCleanups
  /\ auditlogs' = AuditLoggerLog(
                    DeleteExpired(auditlogs, clock - RetentionPeriods.auditlogs),
                    "data_retention_cleanup", clock, stored)
  /\ sweeps' = sweeps + 1
  /\ UNCHANGED <<audit_logs, clock, attempts, reader>>
  /\ SweepFrame

\* Mutant: the bands include their upper limits.
getStockStatusInclusive(units) ==
  IF units <= 5 THEN "CRITICAL"
  ELSE IF units <= 10 THEN "LOW"
  ELSE IF units <= 20 THEN "MEDIUM"
  ELSE "HEALTHY"

getStockStatus(units) ==
  IF units < 5 THEN "CRITICAL"
  ELSE IF units < 10 THEN "LOW"
  ELSE IF units < 20 THEN "MEDIUM"
  ELSE "HEALTHY"

\* ----------------------------------------------------------- Alert model
\* Alerts a behaviour follows.
MaxAlerts == 3

AlertTypes == {"CRITICAL_SHORTAGE", "BOGUS"}

NoSeverity == "undefined"

AlertSeverities == {NoSeverity, "CRITICAL", "URGENT"}

ValidSeverities == {"LOW", "MEDIUM", "HIGH", "CRITICAL"}

\* Alert.create: a new alert is unread and ACTIVE.
AlertCreate(docs, alertData) ==
  Append(docs,
         [type |-> alertData.type,
          severity |-> IF alertData.severity = NoSeverity THEN "MEDIUM"
                       ELSE alertData.severity,
          isRead |-> FALSE, status |-> "ACTIVE"])

AlertFindById(docs, alertId) == alertId \in 1..Len(docs)

\* Alert.markAsRead: $set isRead on the alert with this id.
AlertMarkAsRead(docs, alertId) ==
  [i \in 1..Len(docs) |-> IF i = alertId THEN [docs[i] EXCEPT !.isRead = TRUE] ELSE docs[i]]

\* Alert.markMultipleAsRead: $set isRead on every alert whose id is $in the list.
AlertMarkMultipleAsRead(docs, alertIds) ==
  [i \in 1..Len(docs) |-> IF i \in alertIds THEN [docs[i] EXCEPT !.isRead = TRUE] ELSE docs[i]]

\* Alert.archiveAlert: $set status ARCHIVED.
AlertArchiveAlert(docs, alertId) ==
  [i \in 1..Len(docs) |-> IF i = alertId THEN [docs[i] EXCEPT !.status = "ARCHIVED"] ELSE docs[i]]

\* Alert.getUnreadCount: countDocuments({ isRead: false, status: "ACTIVE" })
AlertGetUnreadCount(docs) ==
  Cardinality({i \in 1..Len(docs) : docs[i].isRead = FALSE /\ docs[i].status = "ACTIVE"})

\* Mutant: the aggregation has no $match stage.
AlertGetSummaryUnmatched(docs) ==
  LET matched == 1..Len(docs)
      Count(test(_)) == Cardinality({i \in matched : test(docs[i])})
      Unread(a) == ~a.isRead
      Critical(a) == a.severity = "CRITICAL"
      High(a) == a.severity = "HIGH"
      Medium(a) == a.severity = "MEDIUM"
      Low(a) == a.severity = "LOW"
  IN [total |-> Cardinality(matched), unread |-> Count(Unread),
      critical |-> Count(Critical), high |-> Count(High),
      medium |-> Count(Medium), low |-> Count(Low)]

\* Alert.getSummary: $match status ACTIVE, then one $group with the sums;
\* an empty result is answered with zeros.
AlertGetSummary(docs) ==
  LET matched == {i \in 1..Len(docs) : docs[i].status = "ACTIVE"}
      Count(test(_)) == Cardinality({i \in matched : test(docs[i])})
      Unread(a) == ~a.isRead
      Critical(a) == a.severity = "CRITICAL"
      High(a) == a.severity = "HIGH"
      Medium(a) == a.severity = "MEDIUM"
      Low(a) == a.severity = "LOW"
  IN IF matched = {}
       THEN [total |-> 0, unread |-> 0, critical |-> 0, high |-> 0,
             medium |-> 0, low |-> 0]
       ELSE [total |-> Cardinality(matched), unread |-> Count(Unread),
             critical |-> Count(Critical), high |-> Count(High),
             medium |-> Count(Medium), low |-> Count(Low)]

\* Mutant: a count in the LOW band raises the alert as well.
EvaluateThresholdsBelowLow(docs, units) ==
  IF getStockStatus(units) \in {"CRITICAL", "LOW"}
    THEN AlertCreate(docs, [type |-> "CRITICAL_SHORTAGE", severity |-> "CRITICAL"])
    ELSE docs

\* The threshold evaluation of a stock adjustment: a count in the CRITICAL
\* band raises one CRITICAL_SHORTAGE alert.
EvaluateThresholds(docs, units) ==
  IF getStockStatus(units) = "CRITICAL"
    THEN AlertCreate(docs, [type |-> "CRITICAL_SHORTAGE", severity |-> "CRITICAL"])
    ELSE docs

AlertFrame ==
  UNCHANGED <<requests, stock, stats, calls, expected, drives, dcalls, auditVars,
              organizations, admin_actions, acalls, sweeps, snapshot>>

\* POST /alerts: createAlert; 400 for an unknown type or severity.
createAlert(type, severity) ==
  /\ Len(alerts) < MaxAlerts
  /\ alerts' = IF type = "CRITICAL_SHORTAGE"
                  /\ (severity # NoSeverity => severity \in ValidSeverities)
                 THEN AlertCreate(alerts, [type |-> type, severity |-> severity])
                 ELSE alerts
  /\ AlertFrame

\* PUT /alerts/:id/read: markAlertAsRead; 404 for an unknown alert.
markAlertAsRead(alertId) ==
  /\ alerts' = IF AlertFindById(alerts, alertId)
                 THEN AlertMarkAsRead(alerts, alertId)
                 ELSE alerts
  /\ AlertFrame

\* PUT /alerts/read-multiple: markMultipleAlertsAsRead; 400 for an empty list.
markMultipleAlertsAsRead(alertIds) ==
  /\ alerts' = IF alertIds # {}
                 THEN AlertMarkMultipleAsRead(alerts, alertIds)
                 ELSE alerts
  /\ AlertFrame

\* PUT /alerts/:id/archive: archiveAlert; 404 for an unknown alert.
archiveAlert(alertId) ==
  /\ alerts' = IF AlertFindById(alerts, alertId)
                 THEN AlertArchiveAlert(alerts, alertId)
                 ELSE alerts
  /\ AlertFrame

\* The manual stock update as a call that is counted when it is answered.
\* BloodStock.updateBloodGroupUnits writes the counter and, on success, one
\* BLOOD_STOCK entry, and evaluates the new count against the thresholds; a
\* body that fails the validation is answered 400 before any model is called.
updateBloodStockCall(bank, group, raw) ==
  /\ attempts < MaxAttempts
  /\ Len(audit_logs) < MaxAudit
  /\ Len(alerts) < MaxAlerts
  /\ attempts' = attempts + 1
  /\ IF updateBloodStockOk(group, raw)
       THEN /\ stock' = BloodStockUpdateBloodGroupUnits(stock, bank, group, Number(raw).v)
            /\ expected' = Adjust(expected, bank, group, Number(raw).v - stock[bank][group])
            /\ audit_logs' = AuditCreate(audit_logs,
                               [entityType |-> "BLOOD_STOCK", entityId |-> bank,
                                status |-> NoStatus], clock)
            /\ alerts' = EvaluateThresholds(alerts, Number(raw).v)
       ELSE UNCHANGED <<stock, expected, audit_logs, alerts>>
  /\ UNCHANGED <<requests, stats, calls, drives, dcalls, auditlogs, clock, reader,
                 organizations, admin_actions, acalls, sweeps, snapshot>>

\* ---- a client of findByEntityId reading page after page
queryStart(entityId, limit) ==
  /\ reader.pc = "idle"
  /\ reader' = [IdleReader EXCEPT !.pc = "reading", !.entityId = entityId,
                                  !.limit = limit, !.size = Len(audit_logs)]
  /\ UNCHANGED <<audit_logs, auditlogs, clock, attempts>>
  /\ AuditFrame

queryPage ==
  /\ reader.pc = "reading"
  /\ \E order \in SortedOrders(audit_logs, reader.entityId) :
       LET result == findByEntityId(audit_logs, order, reader.page, reader.limit) IN
         reader' = [reader EXCEPT
                      !.got = @ \o result.logs,
                      !.pc = IF reader.page >= result.totalPages THEN "done" ELSE "reading",
                      !.page = IF reader.page >= result.totalPages THEN @ ELSE @ + 1]
  /\ UNCHANGED <<audit_logs, auditlogs, clock, attempts>>
  /\ AuditFrame

\* ------------------------------------------------------ specifications
PathStep ==
  \/ \E id \in RequestIds, u \in InputUrgencies, g \in InputGroups, n \in 0..MaxUnits :
       createRequest(id, u, g, n)
  \/ \E id \in RequestIds : autoApprove(id)
  \/ \E id \in RequestIds, a \in Admins \cup {NoAdmin} : approveRequest(a, id)
  \/ \E id \in RequestIds, b \in Banks \cup {NoBank} : assignBloodBank(id, b)
  \/ \E id \in RequestIds : startProcessing(id)

\* The way of a routine request for the largest quantity to PROCESSING.
LedgerPathStep ==
  \/ \E id \in RequestIds : createRequest(id, "MEDIUM", "O+", MaxUnits)
  \/ \E id \in RequestIds : autoApprove(id)
  \/ \E id \in RequestIds, b \in Banks : assignBloodBank(id, b)
  \/ \E id \in RequestIds : startProcessing(id)

EndStep ==
  \/ \E id \in RequestIds, reason \in Reasons : rejectRequest(id, reason)
  \/ \E id \in RequestIds, reason \in Reasons : cancelRequest(id, reason)

NoteStep ==
  \/ \E id \in RequestIds : updateResponse(id)
  \/ \E id \in RequestIds, m \in Messages : addCommunicationLog(id, m)

DeleteStep ==
  \E id \in RequestIds, a \in Admins \cup {NoAdmin} : deleteRequest(a, id)

FulfillStep ==
  \/ \E id \in RequestIds, raw \in RawFulfillUnits : fulfillStart(id, raw)
  \/ \E id \in RequestIds : fulfillFind(id)
  \/ \E id \in RequestIds : fulfillDebit(id)

StockStep ==
  \E b \in Banks, g \in InputGroups, raw \in RawStockUnits : updateBloodStock(b, g, raw)

DriveStep ==
  \/ \E id \in DriveIds, b \in Banks : createDrive(id, b)
  \/ \E id \in DriveIds, a \in Admins \cup {NoAdmin} : approveDrive(a, id)
  \/ \E id \in DriveIds : startDrive(id)
  \/ \E id \in DriveIds, g \in InputGroups, raw \in RawCollectedUnits :
       recordCollection(id, g, raw)
  \/ \E id \in DriveIds : completeStart(id)
  \/ \E id \in DriveIds : completeFind(id)
  \/ \E id \in DriveIds : completeCredit(id)
  \/ \E id \in DriveIds : completeStats1(id)
  \/ \E id \in DriveIds : completeStats2(id)

DriveEndStep ==
  \/ \E id \in DriveIds, a \in Admins \cup {NoAdmin}, reason \in Reasons :
       rejectDrive(a, id, reason)
  \/ \E id \in DriveIds, reason \in Reasons : cancelDrive(id, reason)

DriveEditStep ==
  \/ \E id \in DriveIds, body \in DriveBodies : updateDrive(id, body)
  \/ \E id \in DriveIds, a \in Admins \cup {NoAdmin} : deleteDrive(a, id)

\* Every hospital-request operation, and the manual stock update.
Next == PathStep \/ EndStep \/ NoteStep \/ DeleteStep \/ FulfillStep \/ StockStep

Spec == Init /\ [][Next]_vars

\* The request lifecycle: the transitions, the notes and the fulfill handler.
NextLifecycle == PathStep \/ EndStep \/ NoteStep \/ FulfillStep

SpecLifecycle == Init /\ [][NextLifecycle]_vars

\* The stock ledger: everything that leads to, or is, a stock adjustment.
NextLedger == LedgerPathStep \/ FulfillStep \/ StockStep \/ DriveStep

SpecLedger == Init /\ [][NextLedger]_vars

\* The donation drive: every drive operation, and the manual stock update.
NextDrive == DriveStep \/ DriveEndStep \/ DriveEditStep \/ StockStep

SpecDrive == Init /\ [][NextDrive]_vars

\* Reject and cancel, of a request and of a drive, on every status.
NextReasons ==
  \/ LedgerPathStep
  \/ EndStep
  \/ \E id \in DriveIds, b \in Banks : createDrive(id, b)
  \/ \E id \in DriveIds, a \in Admins : approveDrive(a, id)
  \/ \E id \in DriveIds : startDrive(id)
  \/ DriveEndStep

SpecReasons == Init /\ [][NextReasons]_vars

\* The audit ledger: its writers, the retention sweep and the passing of time.
NextAudit ==
  \/ \E d \in TickDays : Tick(d)
  \/ \E e \in Banks, st \in AuditInputStatuses : auditCreate(e, st)
  \/ \E stored \in BOOLEAN : dataRetentionCleanup(stored)
  \/ \E b \in Banks, g \in InputGroups, raw \in RawStockUnits : updateBloodStockCall(b, g, raw)

SpecAudit == Init /\ [][NextAudit]_vars

\* The audit ledger read by entity, page after page, while it is written.
NextAuditQuery ==
  \/ Tick(1)
  \/ \E e \in EntityIds : auditCreate(e, NoStatus)
  \/ \E e \in EntityIds, limit \in 1..MaxAudit : queryStart(e, limit)
  \/ queryPage

SpecAuditQuery == Init /\ [][NextAuditQuery]_vars

\* ================================================================ claims

Quiescent ==
  /\ \A id \in RequestIds : calls[id].pc \in {"idle", "done"}
  /\ \A d \in DriveIds : dcalls[d].pc \in {"idle", "done"}

C3_InsufficientStockReported ==
  [][\A id \in RequestIds :
       (/\ fulfillDebit(id)
        /\ calls[id].units > stock[calls[id].bank][calls[id].group])
         => /\ calls'[id].error = "InsufficientStockError"
            /\ stock' = stock]_vars

\* ---------------------------------------------------------------- C4
\* C4: when fulfill is invoked twice on one PROCESSING request, the invocation
\* that wins reports success and has debited the stock by unitsFulfilled
\* exactly once; the other is refused.
C4_FulfilledOnceDebitedOnce ==
  \A id \in RequestIds :
    calls[id].pc = "done" /\ calls[id].refused /\ calls[id].bank \in Banks =>
      calls[id].resp = 200 /\ calls[id].debited = calls[id].units

\* ---------------------------------------------------------------- C5
\* C5: a fulfill for more units than the assigned bank holds leaves the
\* request in PROCESSING (it never becomes FULFILLED) and the stock as it was.
C5_ShortFulfillStaysProcessing ==
  [][\A id \in RequestIds, raw \in RawFulfillUnits :
       (/\ fulfillStart(id, raw)
        /\ requests[id].status = "PROCESSING"
        /\ requests[id].bloodBankId \in Banks
        /\ parseInt(raw).t = "number"
        /\ parseInt(raw).v > stock[requests[id].bloodBankId][requests[id].bloodGroup])
         => /\ requests'[id].status = "PROCESSING"
            /\ stock' = stock]_vars

\* ---------------------------------------------------------------- C6
\* C6: every request has unitsFulfilled <= unitsRequested, and a fulfill call
\* for more than unitsRequested changes neither the request nor the stock.
C6_FulfilledWithinRequested ==
  /\ [](\A id \in RequestIds :
          Exists(id) => requests[id].unitsFulfilled <= requests[id].unitsRequested)
  /\ [][\A id \in RequestIds, raw \in RawFulfillUnits :
          (/\ parseInt(raw).t = "number"
           /\ parseInt(raw).v > requests[id].unitsRequested
           /\ fulfillStart(id, raw))
            => UNCHANGED <<requests, stock>>]_vars

\* A request was fulfilled with fewer units than it asked for.
C6_Witness ==
  \E id \in RequestIds :
    /\ requests[id].status = "FULFILLED"
    /\ requests[id].unitsFulfilled > 0
    /\ requests[id].unitsFulfilled < requests[id].unitsRequested

\* ---------------------------------------------------------------- C7
\* The debit step of a fulfill that ends in success.
SuccessfulDebit ==
  \E id \in RequestIds :
    calls[id].pc = "debit" /\ calls'[id].pc = "done" /\ calls'[id].resp = 200

\* C7: a step of any hospital-request operation (a request document or a
\* fulfill invocation changes) leaves every stock counter as it was, unless
\* it is the debit of a fulfill that succeeds.
C7_OnlyFulfillTouchesStock ==
  [][(requests' # requests \/ calls' # calls) /\ ~SuccessfulDebit
       => stock' = stock]_vars

\* A fulfill ran to its end, and failed, while the bank held stock.
C7_Witness ==
  /\ \E b \in Banks, g \in ValidBloodGroups : stock[b][g] > 0
  /\ \E id \in RequestIds : calls[id].pc = "done" /\ calls[id].resp = 500

C9_TerminalAbsorbing ==
  [][\A id \in RequestIds :
       LET old == requests[id].status
           new == requests'[id].status
       IN /\ old \in TerminalStatuses => new = old
          /\ (new \in {"REJECTED", "CANCELLED"} /\ new # old)
               => old \in RequestStatuses \ TerminalStatuses]_vars

\* A request was rejected after it had been assigned.
C9_Witness ==
  \E id \in RequestIds :
    requests[id].status = "REJECTED" /\ requests[id].bloodBankId \in Banks

\* --------------------------------------------------------------- C10
Approved(r) == \E i \in 1..Len(r.hist) : r.hist[i] = "APPROVED"

Ended(status) == status \in {"REJECTED", "CANCELLED"}

C11_ReasonRequired ==
  [][ /\ \A id \in RequestIds, reason \in Reasons :
           Missing(reason) /\ (rejectRequest(id, reason) \/ cancelRequest(id, reason))
             => UNCHANGED vars
      /\ \A id \in DriveIds, reason \in Reasons, a \in Admins \cup {NoAdmin} :
           Missing(reason) /\ (rejectDrive(a, id, reason) \/ cancelDrive(id, reason))
             => UNCHANGED vars
      /\ \A id \in RequestIds :
           Ended(requests'[id].status) /\ ~Ended(requests[id].status)
             => /\ Len(requests'[id].log) = Len(requests[id].log) + 1
                /\ ~Missing(requests'[id].log[Len(requests'[id].log)])
      /\ \A id \in DriveIds :
           Ended(drives'[id].status) /\ ~Ended(drives[id].status)
             => ~Missing(drives'[id].reason) ]_vars

\* A cancelled request and a rejected drive, each with its reason on record.
C11_Witness ==
  /\ \E id \in RequestIds :
       /\ requests[id].status = "CANCELLED"
       /\ requests[id].log = <<"no stock">>
  /\ \E id \in DriveIds :
       /\ drives[id].status = "REJECTED"
       /\ drives[id].reason = "no stock"


\* ---------------------------------------------------------------- C12
\* C12: a recordCollection call on a drive that is not ONGOING changes
\* nothing; one that changes the drive found it ONGOING, adds the given
\* units, a positive number, to collectedUnits[bloodGroup] and to
\* totalUnitsCollected and to nothing else; and no call changes any bank's
\* stock.
C12_RecordCollectionFrame ==
  [][ \A id \in DriveIds, g \in InputGroups, raw \in RawCollectedUnits :
        recordCollection(id, g, raw) =>
          /\ stock' = stock
          /\ drives[id].status # "ONGOING" => UNCHANGED vars
          /\ drives' # drives =>
               /\ drives[id].status = "ONGOING"
               /\ parseInt(raw).t = "number"
               /\ parseInt(raw).v > 0
               /\ drives' = [drives EXCEPT
                    ![id].collectedUnits[g] = @ + parseInt(raw).v,
                    ![id].totalUnitsCollected = @ + parseInt(raw).v]
               /\ UNCHANGED <<requests, stats, calls, expected, dcalls>> ]_vars

\* An ONGOING drive holds a collection while its bank has units in stock.
C12_Witness ==
  \E id \in DriveIds :
    /\ drives[id].status = "ONGOING"
    /\ drives[id].collectedUnits["O+"] = MaxCollected
    /\ drives[id].totalUnitsCollected = MaxCollected
    /\ drives[id].bloodBankId \in Banks
    /\ stock[drives[id].bloodBankId]["O+"] = MaxStock


\* ---------------------------------------------------------------- C13
\* C13: no step of a drive operation on a drive that has not been completed
\* changes any bank's stock, so the stock after recording and cancelling is
\* what the other operations made of it; and a CANCELLED drive stays
\* CANCELLED until it is deleted, so it can never be completed later.
DriveOperation(id) ==
  \/ \E b \in Banks : createDrive(id, b)
  \/ \E a \in Admins \cup {NoAdmin} : approveDrive(a, id)
  \/ startDrive(id)
  \/ \E g \in InputGroups, raw \in RawCollectedUnits : recordCollection(id, g, raw)
  \/ \E a \in Admins \cup {NoAdmin}, reason \in Reasons : rejectDrive(a, id, reason)
  \/ \E reason \in Reasons : cancelDrive(id, reason)
  \/ \E body \in DriveBodies : updateDrive(id, body)
  \/ \E a \in Admins \cup {NoAdmin} : deleteDrive(a, id)
  \/ completeStart(id) \/ completeFind(id) \/ completeCredit(id)
  \/ completeStats1(id) \/ completeStats2(id)

C13_CancelledDriveLeavesStock ==
  [][ \A id \in DriveIds :
        /\ DriveOperation(id) /\ drives'[id].status # "COMPLETED" /\ dcalls[id].pc = "idle"
             => stock' = stock
        /\ drives[id].status = "CANCELLED"
             => drives'[id].status \in {"CANCELLED", "DELETED"} ]_vars

\* A drive cancelled while ONGOING with a collection on record, at a bank
\* whose stock was set before.
C13_Witness ==
  \E id \in DriveIds :
    /\ drives[id].status = "CANCELLED"
    /\ drives[id].hist = <<"PLANNED", "APPROVED", "ONGOING", "CANCELLED">>
    /\ drives[id].collectedUnits["O+"] = MaxCollected
    /\ drives[id].bloodBankId \in Banks
    /\ stock[drives[id].bloodBankId]["O+"] = MaxStock


\* ---------------------------------------------------------------- C14
\* C14: the completeDrive call whose status write matched credits the bank's
\* stock by collectedUnits[g] for every group g, which leaves the groups
\* with nothing collected as they were, and does not end in an error; a
\* completeDrive call on a drive that is not ONGOING changes neither the
\* drive nor the stock.
C14_CompleteCreditsStock ==
  [][ \A id \in DriveIds :
        /\ completeCredit(id) =>
             /\ stock' = [stock EXCEPT ![dcalls[id].bank] =
                           [g \in ValidBloodGroups |-> @[g] + dcalls[id].collected[g]]]
             /\ dcalls'[id].resp # 500
        /\ completeStart(id) /\ drives[id].status # "ONGOING" =>
             /\ stock' = stock
             /\ drives' = drives ]_vars


\* ---------------------------------------------------------------- C15
\* C15: when the credit of a completeDrive call fails, the call leaves every
\* stock counter and the bank's statistics as they were and the drive is
\* still ONGOING.
C15_CompletionAllOrNothing ==
  [][ \A id \in DriveIds :
        completeCredit(id) /\ dcalls'[id].resp = 500 /\ DriveExists(id) =>
          /\ stock' = stock
          /\ stats' = stats
          /\ drives'[id].status = "ONGOING" ]_vars


\* ---------------------------------------------------------------- C16
\* C16: of two completeDrive calls racing on one ONGOING drive, one is
\* refused by the status filter and the other, once it has ended, succeeded
\* and counted the drive in the bank's statistics.
C16_RacingCompletesOneSuccess ==
  \A id \in DriveIds :
    dcalls[id].pc = "done" /\ dcalls[id].refused =>
      /\ dcalls[id].resp = 200
      /\ dcalls[id].bank \in Banks =>
           /\ stats[dcalls[id].bank].totalNgoDrivesSupported > 0
           /\ stats[dcalls[id].bank].totalDonationsReceived >= dcalls[id].total


\* ---------------------------------------------------------------- C17
\* C17: a drive that is or ever was ONGOING or COMPLETED was APPROVED before,
\* from PLANNED, and carries the id of the admin who approved it; no
\* operation, updateDrive included, brings a drive there another way.
DriveApproved(d) ==
  /\ d.approvedBy \in Admins
  /\ \E j \in 1..Len(d.hist) : d.hist[j] = "APPROVED" /\ j > 1 /\ d.hist[j - 1] = "PLANNED"

C18_EveryCallAudited ==
  [][ \A b \in Banks, g \in InputGroups, raw \in RawStockUnits :
        updateBloodStockCall(b, g, raw) =>
          /\ Len(audit_logs') = Len(audit_logs) + 1
          /\ audit_logs'[Len(audit_logs')].status \in {"SUCCESS", "FAILURE"} ]_vars

\* ---------------------------------------------------------------- C19
\* C19: the audit ledger only grows at its end: every step, the retention
\* sweep included, leaves each entry already written as it was and where it
\* was.
IsPrefix(s, t) ==
  /\ Len(s) <= Len(t)
  /\ \A i \in 1..Len(s) : s[i] = t[i]

C19_LedgerAppendOnly == [][IsPrefix(audit_logs, audit_logs')]_vars

\* The sweep ran when an entry of the ledger was older than the retention
\* period, and the ledger was written again at that time or later.
C19_Witness ==
  /\ Len(audit_logs) = MaxAudit
  /\ \E i \in 1..Len(auditlogs) :
       /\ auditlogs[i].action = "data_retention_cleanup"
       /\ audit_logs[1].timestamp < auditlogs[i].timestamp - RetentionPeriods.auditlogs
       /\ audit_logs[MaxAudit].timestamp >= auditlogs[i].timestamp


\* ---------------------------------------------------------------- C20
\* C20: a client that has read every page of findByEntityId for an entity,
\* with no entry written meanwhile, holds entries of that entity only, and
\* holds the entity's entries in the reverse of the order in which they were
\* written, each of them once.
Reverse(s) == [i \in 1..Len(s) |-> s[Len(s) + 1 - i]]

History(entityId) == SelectSeq(audit_logs, LAMBDA doc : doc.entityId = entityId)

C20_QueryListsHistory ==
  reader.pc = "done" /\ reader.size = Len(audit_logs) =>
    /\ \A i \in 1..Len(reader.got) : reader.got[i].entityId = reader.entityId
    /\ reader.got = Reverse(History(reader.entityId))

\* ------------------------------------------------------- blood bank model
\* Status changes of one bank that a behaviour follows.
MaxChanges == 3

\* BloodBank.create: a bank starts PENDING and inactive.
BloodBankCreate(bloodBankData) ==
  [status |-> "PENDING", isActive |-> FALSE, name |-> bloodBankData.name,
   verificationStatus |-> [isVerified |-> FALSE, verifiedBy |-> NoAdmin],
   hist |-> <<"PENDING">>]

SetBankStatus(doc, status) ==
  [doc EXCEPT !.status = status, !.hist = Append(@, status)]

\* The request bodies of PUT /:id: every subset of these keys.  A key with a
\* dot is a path into the document for $set.
PayloadKeys ==
  {"name", "status", "isActive", "verificationStatus",
   "verificationStatus.isVerified", "statistics.totalUnitsDistributed"}

PayloadValue(k) ==
  CASE k = "name" -> "renamed"
    [] k = "status" -> "VERIFIED"
    [] k = "isActive" -> TRUE
    [] k = "verificationStatus" -> [isVerified |-> TRUE, verifiedBy |-> "admin-1"]
    [] k = "verificationStatus.isVerified" -> TRUE
    [] k = "statistics.totalUnitsDistributed" -> 1

Payloads == {[k \in S |-> PayloadValue(k)] : S \in SUBSET PayloadKeys}

\* BloodBank.updateById: delete updateData.status and
\* updateData.verificationStatus, then $set every key that is left.
BloodBankUpdateById(doc, body) ==
  LET updateData == [k \in DOMAIN body \ {"status", "verificationStatus"} |-> body[k]]
      Has(k) == k \in DOMAIN updateData
  IN [doc EXCEPT
        !.name = IF Has("name") THEN updateData["name"] ELSE @,
        !.isActive = IF Has("isActive") THEN updateData["isActive"] ELSE @,
        !.verificationStatus.isVerified =
           IF Has("verificationStatus.isVerified")
           THEN updateData["verificationStatus.isVerified"] ELSE @]

\* The statistics are part of the same document: the same $set reaches them.
StatisticsUpdateById(statistics, body) ==
  LET updateData == [k \in DOMAIN body \ {"status", "verificationStatus"} |-> body[k]]
  IN IF "statistics.totalUnitsDistributed" \in DOMAIN updateData
       THEN [statistics EXCEPT !.totalUnitsDistributed =
                                  updateData["statistics.totalUnitsDistributed"]]
       ELSE statistics

\* The filters of the four conditional updates.
VerifyByAdminOk(doc) == doc.status = "PENDING"

RejectByAdminOk(doc) == doc.status = "PENDING"

SuspendByAdminOk(doc) == doc.status = "VERIFIED"

ReactivateByAdminOk(doc) == doc.status = "SUSPENDED"

BloodBankVerifyByAdmin(doc, adminId) ==
  [SetBankStatus(doc, "VERIFIED") EXCEPT
     !.isActive = TRUE,
     !.verificationStatus = [isVerified |-> TRUE, verifiedBy |-> adminId]]

BloodBankRejectByAdmin(doc, adminId) ==
  [SetBankStatus(doc, "REJECTED") EXCEPT !.isActive = FALSE]

BloodBankSuspendByAdmin(doc, adminId) ==
  [SetBankStatus(doc, "SUSPENDED") EXCEPT !.isActive = FALSE]

BloodBankReactivateByAdmin(doc, adminId) ==
  [SetBankStatus(doc, "VERIFIED") EXCEPT !.isActive = TRUE]

\* BloodBankAdminAction.create: one record of an admin action.
BloodBankAdminActionCreate(actions, data) ==
  Append(actions,
         [bloodBankId |-> data.bloodBankId, adminId |-> data.adminId,
          actionType |-> data.actionType,
          previousStatus |-> data.previousStatus, newStatus |-> data.newStatus])

BankFrame ==
  UNCHANGED <<requests, stock, stats, calls, expected, drives, dcalls,
              auditVars, alerts, sweeps, snapshot>>

\* The collections start empty: a bank has no document before it registers
\* and an admin no call before they act.
Organization(b) == IF b \in DOMAIN organizations THEN organizations[b] ELSE NoOrganization

AdminCall(a) == IF a \in DOMAIN acalls THEN acalls[a] ELSE IdleAdminCall

Put(f, k, v) == [x \in DOMAIN f \cup {k} |-> IF x = k THEN v ELSE f[x]]

BankExists(b) == Organization(b).status \in BankStatuses

BankDeleted == [NoOrganization EXCEPT !.status = "DELETED"]

\* POST /: registerBloodBank.
registerBloodBank(b) ==
  /\ Organization(b).status = "NONE"
  /\ organizations' = Put(organizations, b, BloodBankCreate([name |-> "bank"]))
  /\ UNCHANGED <<admin_actions, acalls>>
  /\ BankFrame

\* PUT /:id: updateBloodBank hands req.body to updateById; 404 when no
\* document matched.
updateBloodBank(b, body) ==
  /\ IF BankExists(b)
       THEN /\ organizations' =
                 Put(organizations, b, BloodBankUpdateById(Organization(b), body))
            /\ stats' = [stats EXCEPT ![b] = StatisticsUpdateById(@, body)]
       ELSE UNCHANGED <<organizations, stats>>
  /\ UNCHANGED <<admin_actions, acalls>>
  /\ UNCHANGED <<requests, stock, calls, expected, drives, dcalls,
                 auditVars, alerts, sweeps, snapshot>>

\* DELETE /:id: deleteBloodBank removes the document.
deleteBloodBank(b) ==
  /\ BankExists(b)
  /\ \A a \in ActingAdmins : AdminCall(a).pc = "idle"
  /\ organizations' = Put(organizations, b, BankDeleted)
  /\ UNCHANGED <<admin_actions, acalls>>
  /\ BankFrame

\* The first half of an admin action handler: 401 without an admin, 400
\* without a required reason or when the conditional update matched nothing,
\* else the status is written and the handler goes on to write its record.
AdminAction(adminId, b, reasonOk, filterOk, newDoc, actionType, previousStatus, newStatus) ==
  /\ adminId \in ActingAdmins => AdminCall(adminId).pc = "idle"
  /\ Len(Organization(b).hist) <= MaxChanges
  /\ IF adminId = NoAdmin
       THEN UNCHANGED <<organizations, acalls>>
       ELSE IF ~reasonOk \/ ~filterOk
         THEN /\ acalls' = Put(acalls, adminId,
                              [IdleAdminCall EXCEPT !.bank = b, !.resp = 400,
                                                    !.actionType = actionType])
              /\ UNCHANGED organizations
         ELSE /\ organizations' = Put(organizations, b, newDoc)
              /\ acalls' = Put(acalls, adminId,
                              [pc |-> "record", bank |-> b,
                               actionType |-> actionType,
                               previousStatus |-> previousStatus,
                               newStatus |-> newStatus, resp |-> 0])
  /\ UNCHANGED admin_actions
  /\ BankFrame

verifyBloodBank(adminId, b) ==
  AdminAction(adminId, b, TRUE, VerifyByAdminOk(Organization(b)),
              BloodBankVerifyByAdmin(Organization(b), adminId),
              "VERIFY", "PENDING", "VERIFIED")

rejectBloodBank(adminId, b, rejectionReason) ==
  AdminAction(adminId, b, ~Missing(rejectionReason),
              RejectByAdminOk(Organization(b)),
              BloodBankRejectByAdmin(Organization(b), adminId),
              "REJECT", "PENDING", "REJECTED")

suspendBloodBank(adminId, b, suspensionReason) ==
  AdminAction(adminId, b, ~Missing(suspensionReason),
              SuspendByAdminOk(Organization(b)),
              BloodBankSuspendByAdmin(Organization(b), adminId),
              "SUSPEND", "VERIFIED", "SUSPENDED")

reactivateBloodBank(adminId, b) ==
  AdminAction(adminId, b, TRUE, ReactivateByAdminOk(Organization(b)),
              BloodBankReactivateByAdmin(Organization(b), adminId),
              "REACTIVATE", "SUSPENDED", "VERIFIED")

\* The second half: await BloodBankAdminAction.create(...), then 200.  When
\* the insert fails the catch block answers 500; the status write stays.
recordAdminAction(adminId, stored) ==
  /\ AdminCall(adminId).pc = "record"
  /\ IF stored
       THEN /\ admin_actions' =
                 BloodBankAdminActionCreate(admin_actions,
                   [bloodBankId |-> AdminCall(adminId).bank, adminId |-> adminId,
                    actionType |-> AdminCall(adminId).actionType,
                    previousStatus |-> AdminCall(adminId).previousStatus,
                    newStatus |-> AdminCall(adminId).newStatus])
            /\ acalls' = Put(acalls, adminId,
                             [AdminCall(adminId) EXCEPT !.pc = "idle", !.resp = 200])
       ELSE /\ UNCHANGED admin_actions
            /\ acalls' = Put(acalls, adminId,
                             [AdminCall(adminId) EXCEPT !.pc = "idle", !.resp = 500])
  /\ UNCHANGED organizations
  /\ BankFrame

BankEditStep ==
  \E b \in Banks :
    \/ registerBloodBank(b)
    \/ \E body \in Payloads : updateBloodBank(b, body)
    \/ deleteBloodBank(b)

BankAdminStep ==
  \E adminId \in ActingAdmins \cup {NoAdmin}, b \in Banks :
    \/ verifyBloodBank(adminId, b)
    \/ \E reason \in Reasons : rejectBloodBank(adminId, b, reason)
    \/ \E reason \in Reasons : suspendBloodBank(adminId, b, reason)
    \/ reactivateBloodBank(adminId, b)

BankRecordStep ==
  \E adminId \in ActingAdmins, stored \in BOOLEAN : recordAdminAction(adminId, stored)

NextBank == BankEditStep \/ BankAdminStep \/ BankRecordStep

SpecBank == Init /\ [][NextBank]_vars

\* ---------------------------------------------------------- stock snapshot
\* Units a group holds at the start of a behaviour of SpecStatus.
MaxProbe == 21

\* The groups whose counters vary in SpecStatus and SpecStock.
ProbedGroups == {"O+", "AB-"}

RECURSIVE SumUnits(_, _)
\* Object.values(formattedStock).reduce((sum, entry) => sum + entry.units, 0)
SumUnits(formattedStock, groups) ==
  IF groups = {} THEN 0
  ELSE LET g == CHOOSE x \in groups : TRUE
       IN formattedStock[g].units + SumUnits(formattedStock, groups \ {g})

\* The stock document of a bank: its eight counters, with the total the
\* store keeps next to them when the document carries one.
BloodStockFindByBloodBankId(b, hasTotal) ==
  LET doc == [g \in ValidBloodGroups |-> [units |-> stock[b][g]]]
  IN [bloodStock |-> doc,
      totalUnitsAvailable |->
        IF hasTotal THEN Num(SumUnits(doc, ValidBloodGroups)) ELSE Undefined]

SnapshotIds == Banks \cup {"BB-404"}

SnapshotFrame ==
  UNCHANGED <<requests, stock, stats, calls, expected, drives, dcalls, auditVars,
              organizations, admin_actions, acalls, alerts, sweeps>>

\* GET /:id/stock, up to await BloodBank.findById(id): 404 for an unknown bank.
getBloodStockStart(id) ==
  /\ snapshot.pc = "idle"
  /\ snapshot' = IF id \in Banks
                   THEN [NoSnapshot EXCEPT !.pc = "read", !.bank = id]
                   ELSE [NoSnapshot EXCEPT !.resp = 404]
  /\ SnapshotFrame

\* Mutant: without a stored total the answer reports one counter as the total.
getBloodStockOneCounter(hasTotal) ==
  /\ snapshot.pc = "read"
  /\ LET bloodStockDocument == BloodStockFindByBloodBankId(snapshot.bank, hasTotal)
         formattedStock ==
           [g \in ValidBloodGroups |->
              [units |-> bloodStockDocument.bloodStock[g].units,
               status |-> getStockStatus(bloodStockDocument.bloodStock[g].units)]]
     IN snapshot' =
          [pc |-> "idle", bank |-> snapshot.bank, bloodStock |-> formattedStock,
           totalUnitsAvailable |->
             IF bloodStockDocument.totalUnitsAvailable # Undefined
               THEN bloodStockDocument.totalUnitsAvailable.v
               ELSE formattedStock["O+"].units,
           resp |-> 200]
  /\ SnapshotFrame

\* The rest of getBloodStock: one read of the stock document, from which
\* every counter, its status and the total of the answer are taken.
getBloodStock(hasTotal) ==
  /\ snapshot.pc = "read"
  /\ LET bloodStockDocument == BloodStockFindByBloodBankId(snapshot.bank, hasTotal)
         formattedStock ==
           [g \in ValidBloodGroups |->
              [units |-> bloodStockDocument.bloodStock[g].units,
               status |-> getStockStatus(bloodStockDocument.bloodStock[g].units)]]
     IN snapshot' =
          [pc |-> "idle", bank |-> snapshot.bank, bloodStock |-> formattedStock,
           totalUnitsAvailable |->
             IF bloodStockDocument.totalUnitsAvailable # Undefined
               THEN bloodStockDocument.totalUnitsAvailable.v
               ELSE SumUnits(formattedStock, ValidBloodGroups),
           resp |-> 200]
  /\ SnapshotFrame

SnapshotStep ==
  \/ \E id \in SnapshotIds : getBloodStockStart(id)
  \/ \E hasTotal \in BOOLEAN : getBloodStock(hasTotal)

\* A stock update of one of the probed groups to any count up to MaxStock.
ProbedStockStep ==
  \E b \in Banks, g \in ProbedGroups, n \in 0..MaxStock : updateBloodStock(b, g, Num(n))

\* The banks start with any counts up to MaxProbe in the probed groups.
InitStatus ==
  /\ requests = [id \in RequestIds |-> NoRequest]
  /\ stock \in {[b \in Banks |->
                   [g \in ValidBloodGroups |->
                      IF g \in ProbedGroups THEN u[g] ELSE 0]] :
                  u \in [ProbedGroups -> 0..MaxProbe]}
  /\ stats = [b \in Banks |->
               [totalDonationsReceived |-> 0, totalUnitsDistributed |-> 0,
                totalNgoDrivesSupported |-> 0, totalHospitalRequestsFulfilled |-> 0]]
  /\ calls = [id \in RequestIds |-> IdleCall]
  /\ expected = stock
  /\ drives = [id \in DriveIds |-> NoDrive]
  /\ dcalls = [id \in DriveIds |-> IdleDriveCall]
  /\ audit_logs = <<>>
  /\ auditlogs = <<>>
  /\ clock = 0
  /\ attempts = 0
  /\ reader = IdleReader
  /\ organizations = <<>>
  /\ admin_actions = <<>>
  /\ acalls = <<>>
  /\ alerts = <<>>
  /\ sweeps = 0
  /\ snapshot = NoSnapshot

SpecStatus == InitStatus /\ [][SnapshotStep]_vars

NextStock == ProbedStockStep \/ SnapshotStep

SpecStock == Init /\ [][NextStock]_vars

\* The request lifecycle with its fulfilment, next to the bank's own
\* registration and updates.
NextStatistics == LedgerPathStep \/ FulfillStep \/ StockStep \/ BankEditStep

SpecStatistics == Init /\ [][NextStatistics]_vars

\* ------------------------------------------------------------ alert engine
AlertIds == 1..MaxAlerts

\* Counts on both sides of the CRITICAL band.
ThresholdUnits == {Num(4), Num(5), Num(8)}

AlertStep ==
  \/ \E type \in AlertTypes, severity \in AlertSeverities : createAlert(type, severity)
  \/ \E alertId \in AlertIds : markAlertAsRead(alertId)
  \/ \E alertIds \in SUBSET AlertIds : markMultipleAlertsAsRead(alertIds)
  \/ \E alertId \in AlertIds : archiveAlert(alertId)

ThresholdStep ==
  \E b \in Banks, g \in InputGroups, raw \in ThresholdUnits \cup {Num(-1)} :
    updateBloodStockCall(b, g, raw)

NextAlert == AlertStep \/ ThresholdStep

SpecAlert == Init /\ [][NextAlert]_vars

\* ------------------------------------------- bank, stock and alert claims
BankEdges ==
  {<<"PENDING", "VERIFIED">>, <<"PENDING", "REJECTED">>,
   <<"VERIFIED", "SUSPENDED">>, <<"SUSPENDED", "VERIFIED">>}

EdgeAction(from, to) ==
  CASE from = "PENDING" /\ to = "VERIFIED" -> "VERIFY"
    [] from = "PENDING" /\ to = "REJECTED" -> "REJECT"
    [] from = "VERIFIED" /\ to = "SUSPENDED" -> "SUSPEND"
    [] from = "SUSPENDED" /\ to = "VERIFIED" -> "REACTIVATE"
    [] OTHER -> "NONE"

\* An admin action on bank b passed its status write in this step.
ActionPassed(b, actionType) ==
  \E a \in ActingAdmins :
    /\ AdminCall(a).pc = "idle"
    /\ AdminCall(a)'.pc = "record"
    /\ AdminCall(a)'.bank = b
    /\ AdminCall(a)'.actionType = actionType

\* An admin action on bank b was answered 400 in this step.
ActionRefused(b) ==
  \E a \in ActingAdmins :
    /\ AdminCall(a).pc = "idle"
    /\ AdminCall(a)' # AdminCall(a)
    /\ AdminCall(a)'.pc = "idle"
    /\ AdminCall(a)'.resp = 400
    /\ AdminCall(a)'.bank = b

\* C25: a bank's status changes only along PENDING->VERIFIED,
\* PENDING->REJECTED, VERIFIED->SUSPENDED and SUSPENDED->VERIFIED, each by the
\* matching admin action; a refused admin action changes nothing; REJECTED is
\* never left; and updateById changes neither status nor verificationStatus,
\* whatever its payload.
C25_BankStatusMachine ==
  [][\A b \in Banks :
       (BankExists(b) /\ Organization(b)'.status \in BankStatuses) =>
         /\ Organization(b)'.status # Organization(b).status =>
              /\ <<Organization(b).status, Organization(b)'.status>> \in BankEdges
              /\ ActionPassed(b, EdgeAction(Organization(b).status,
                                            Organization(b)'.status))
         /\ ActionRefused(b) => Organization(b)' = Organization(b)
         /\ Organization(b).status = "REJECTED" =>
              Organization(b)'.status = "REJECTED"
         /\ (\E body \in Payloads : updateBloodBank(b, body)) =>
              /\ Organization(b)'.status = Organization(b).status
              /\ Organization(b)'.verificationStatus =
                   Organization(b).verificationStatus]_vars

\* C29: a bank is active only while its status is VERIFIED.
C29_ActiveOnlyWhenVerified ==
  \A b \in Banks :
    (BankExists(b) /\ Organization(b).isActive) => Organization(b).status = "VERIFIED"

\* The status changes of bank b from status from to status to, and the
\* records of such a change.
ChangesOf(b, from, to) ==
  {i \in 1..(Len(Organization(b).hist) - 1) :
     Organization(b).hist[i] = from /\ Organization(b).hist[i + 1] = to}

RecordsOf(b, from, to) ==
  {i \in 1..Len(admin_actions) :
     /\ admin_actions[i].bloodBankId = b
     /\ admin_actions[i].previousStatus = from
     /\ admin_actions[i].newStatus = to
     /\ admin_actions[i].adminId \in ActingAdmins
     /\ admin_actions[i].actionType = EdgeAction(from, to)}

\* C22: once no admin action is between its two writes, every status change
\* of a bank has exactly one record naming the admin, the previous and the new
\* status: one change and one record when two admins race, and no change
\* without a record when the record write fails.
C22_OneRecordPerStatusChange ==
  (\A a \in ActingAdmins : AdminCall(a).pc = "idle") =>
    \A b \in Banks :
      BankExists(b) =>
        /\ \A from, to \in BankStatuses :
             Cardinality(RecordsOf(b, from, to)) = Cardinality(ChangesOf(b, from, to))
        /\ Cardinality({i \in 1..Len(admin_actions) : admin_actions[i].bloodBankId = b})
             = Len(Organization(b).hist) - 1

DriveEdges ==
  {<<"PLANNED", "APPROVED">>, <<"APPROVED", "ONGOING">>,
   <<"ONGOING", "COMPLETED">>, <<"PLANNED", "REJECTED">>}
    \cup {<<s, "CANCELLED">> : s \in DriveStatuses \ DriveTerminalStatuses}

C27_StockStatusBands ==
  snapshot.resp = 200 =>
    \A g \in ValidBloodGroups :
      LET units == snapshot.bloodStock[g].units
          status == snapshot.bloodStock[g].status
      IN /\ units >= 0
         /\ status \in {"CRITICAL", "LOW", "MEDIUM", "HEALTHY"}
         /\ status = "CRITICAL" <=> units < 5
         /\ status = "LOW" <=> units \in 5..9
         /\ status = "MEDIUM" <=> units \in 10..19
         /\ status = "HEALTHY" <=> units >= 20

\* A snapshot with one counter on each side of the MEDIUM/HEALTHY boundary.
C27_Witness ==
  /\ snapshot.resp = 200
  /\ snapshot.bloodStock["O+"].units = 19
  /\ snapshot.bloodStock["O+"].status = "MEDIUM"
  /\ snapshot.bloodStock["AB-"].units = 20
  /\ snapshot.bloodStock["AB-"].status = "HEALTHY"

ShortageAlert ==
  [type |-> "CRITICAL_SHORTAGE", severity |-> "CRITICAL", isRead |-> FALSE,
   status |-> "ACTIVE"]

UnreadActive(docs) ==
  {i \in 1..Len(docs) : ~docs[i].isRead /\ docs[i].status = "ACTIVE"}

\* An alert is changed in this step by one of the three mutations.
AlertMutation ==
  \/ \E alertId \in AlertIds : markAlertAsRead(alertId)
  \/ \E alertIds \in SUBSET AlertIds : markMultipleAlertsAsRead(alertIds)
  \/ \E alertId \in AlertIds : archiveAlert(alertId)

\* C30: an existing alert changes only through markAsRead,
\* markMultipleAsRead and archiveAlert, and only forward: isRead never goes
\* back to false and ARCHIVED never back to ACTIVE; in every state
\* getSummary().unread equals getUnreadCount(), the number of unread ACTIVE
\* alerts, archived alerts being counted in neither.
C30_AlertsMonotone ==
  /\ [](/\ AlertGetSummary(alerts).unread = AlertGetUnreadCount(alerts)
        /\ AlertGetUnreadCount(alerts) = Cardinality(UnreadActive(alerts)))
  /\ [][/\ Len(alerts') >= Len(alerts)
        /\ \A i \in 1..Len(alerts) :
             /\ alerts[i].isRead => alerts'[i].isRead
             /\ alerts[i].status = "ARCHIVED" => alerts'[i].status = "ARCHIVED"
             /\ alerts'[i].type = alerts[i].type
             /\ alerts'[i].severity = alerts[i].severity
             /\ alerts'[i] # alerts[i] => AlertMutation]_vars

\* An archived unread alert next to an unread and a read ACTIVE one: two
\* alerts are unread, one is counted.
C30_Witness ==
  /\ \E i, j, k \in 1..Len(alerts) :
       /\ alerts[i].status = "ARCHIVED" /\ ~alerts[i].isRead
       /\ alerts[j].status = "ACTIVE" /\ ~alerts[j].isRead
       /\ alerts[k].status = "ACTIVE" /\ alerts[k].isRead
  /\ AlertGetUnreadCount(alerts) = 1

RECURSIVE DebitedFrom(_, _)
\* The units the fulfilments of the requests in ids took from bank b's stock.
DebitedFrom(b, ids) ==
  IF ids = {} THEN 0
  ELSE LET id == CHOOSE x \in ids : TRUE
       IN (IF calls[id].bank = b THEN calls[id].debited ELSE 0)
            + DebitedFrom(b, ids \ {id})

\* C28: a bank's statistics move only together with a successful debit of a
\* fulfilment: totalHospitalRequestsFulfilled grows by 1 and
\* totalUnitsDistributed by the units fulfilled exactly when the debit
\* succeeded and the request became FULFILLED, and in every state
\* totalUnitsDistributed is the total the fulfilments debited from the bank.
C28_StatisticsFollowDebits ==
  /\ [](\A b \in Banks :
          stats[b].totalUnitsDistributed = DebitedFrom(b, RequestIds))
  /\ [][\A b \in Banks :
          stats'[b] # stats[b] =>
            \E id \in RequestIds :
              /\ calls[id].pc = "debit"
              /\ calls[id].bank = b
              /\ requests'[id].status = "FULFILLED"
              /\ calls'[id].debited = calls[id].units
              /\ stats'[b].totalHospitalRequestsFulfilled =
                   stats[b].totalHospitalRequestsFulfilled + 1
              /\ stats'[b].totalUnitsDistributed =
                   stats[b].totalUnitsDistributed + calls[id].units]_vars

\* C21: a storage failure while an audit entry is appended is never
\* swallowed: the operation around it reports an error, not success; so
\* every retention sweep that was answered with success has its entry in the
\* collection.
C21_AppendFailureSurfaces ==
  sweeps = Cardinality({i \in 1..Len(auditlogs) :
                          auditlogs[i].action = "data_retention_cleanup"})

====
